---- MODULE Spec2Model ----
(***************************************************************************)
(* Account-deletion request lifecycle of the UniTok web server             *)
(* (src/src/index.js): the file-per-token request store, the duplicate     *)
(* scan with reclamation, the expiry rule, and the two route handlers      *)
(* POST /request-deletion and GET /confirm/:token.                         *)
(*                                                                         *)
(* Node.js runs each handler to completion up to its `await`: `running`    *)
(* lists the handlers that are inside their synchronous code, and a        *)
(* handler starts only when the list is empty.  A handler is split where   *)
(* it reads the clock a second time (the wall clock moves while            *)
(* synchronous code runs), between its saveRequest and its sendMail call,  *)
(* and at `await transporter.sendMail(...)`.                               *)
(* Timestamps are milliseconds; toISOString()/new Date(s).getTime() is     *)
(* exact at that resolution, so createdAt/confirmedAt are kept as numbers. *)
(* Tokens are numbered in the order uuidv4() returns them; the directory   *)
(* listing yields the files in either order.  Spec has no storage faults:  *)
(* every fs call succeeds.                                                 *)
(***************************************************************************)
EXTENDS Integers, Sequences, FiniteSets, TLC

VARIABLES
    store,              \* data/<token>.json files: token -> request record
    now,                \* the wall clock, in ms (Date.now())
    env,                \* process.env.TOKEN_EXPIRY_HOURS, as characters
    issued,             \* number of tokens uuidv4() has returned so far
    running,            \* the handlers that are inside their synchronous code
    pending,            \* transporter.sendMail promises not yet settled
    confirmationMails,  \* token -> confirmation emails handed to the transport
    supportMails,       \* token -> support notifications handed to the transport
    confirmedCount,     \* token -> confirm calls that took the pending branch
    last                \* the outcome of the latest handler step

vars == <<store, now, env, issued, running, pending,
          confirmationMails, supportMails, confirmedCount, last>>

(***************************************************************************)
(* Bounds of the model                                                     *)
(***************************************************************************)
MaxTokens == 2
MaxWindows == 2
MaxInflight == 1

Tokens == 1..MaxTokens

(***************************************************************************)
(* Inputs                                                                  *)
(***************************************************************************)
\* request bodies (email, reason, feedback); a string is the sequence of its
\* characters where the code looks inside it, and a missing field is empty
Body(email, reason, feedback) ==
    [email |-> email, reason |-> reason, feedback |-> feedback]
Bodies == { Body(<<"a", "@", "b">>, "privacy-concerns", ""),
            Body(<<"c", "@", "d">>, "slow-app", "fb"),
            Body(<<"a", "b">>, "other", ""),
            Body(<<>>, "other", "fb"),
            Body(<<"a", "@", "b">>, "", "fb") }

\* TOKEN_EXPIRY_HOURS as the deployment sets it
EnvValues == { <<"2", "4">> }

\* process.env.TOKEN_EXPIRY_HOURS when the variable is not set: the value
\* undefined, which is no sequence of characters
Undefined == << "undefined" >>

HourMs == 60 * 60 * 1000
DefaultExpiryHours == 24

(***************************************************************************)
(* Helper functions                                                        *)
(***************************************************************************)
Includes(s, c) == \E i \in 1..Len(s) : s[i] = c

\* a JavaScript number: NaN, or an integer
NaN == [nan |-> TRUE, value |-> 0]
Num(n) == [nan |-> FALSE, value |-> n]

Digits == [c \in {"0", "1", "2", "3", "4", "5", "6", "7", "8", "9"} |->
             CASE c = "0" -> 0 [] c = "1" -> 1 [] c = "2" -> 2 [] c = "3" -> 3
               [] c = "4" -> 4 [] c = "5" -> 5 [] c = "6" -> 6 [] c = "7" -> 7
               [] c = "8" -> 8 [] c = "9" -> 9]

RECURSIVE SkipSpace(_)
SkipSpace(s) == IF s # <<>> /\ Head(s) = " " THEN SkipSpace(Tail(s)) ELSE s

\* value of the longest decimal-digit prefix of s, continuing from acc
RECURSIVE DigitPrefix(_, _)
DigitPrefix(s, acc) ==
    IF s # <<>> /\ Head(s) \in DOMAIN Digits
    THEN DigitPrefix(Tail(s), 10 * acc + Digits[Head(s)])
    ELSE acc

\* ToString of the argument of parseInt: undefined becomes the word
StringOf(v) ==
    IF v = Undefined THEN <<"u", "n", "d", "e", "f", "i", "n", "e", "d">>
    ELSE v

HexDigits == [c \in DOMAIN Digits \cup {"a", "b", "c", "d", "e", "f",
                                        "A", "B", "C", "D", "E", "F"} |->
    IF c \in DOMAIN Digits THEN Digits[c]
    ELSE CASE c \in {"a", "A"} -> 10 [] c \in {"b", "B"} -> 11
           [] c \in {"c", "C"} -> 12 [] c \in {"d", "D"} -> 13
           [] c \in {"e", "E"} -> 14 [] c \in {"f", "F"} -> 15]

\* value of the longest hexadecimal-digit prefix of s, continuing from acc
RECURSIVE HexPrefix(_, _)
HexPrefix(s, acc) ==
    IF s # <<>> /\ Head(s) \in DOMAIN HexDigits
    THEN HexPrefix(Tail(s), 16 * acc + HexDigits[Head(s)])
    ELSE acc

\* parseInt(string) with no radix: the argument as a string, then blanks,
\* a sign, and digits up to the first other character; the digits are
\* hexadecimal after a 0x or 0X prefix and decimal otherwise
ParseInt(str) ==
    LET s == SkipSpace(StringOf(str))
        neg == s # <<>> /\ Head(s) = "-"
        t == IF s # <<>> /\ Head(s) \in {"-", "+"} THEN Tail(s) ELSE s
        hex == Len(t) >= 2 /\ t[1] = "0" /\ t[2] \in {"x", "X"}
        h == SubSeq(t, 3, Len(t))
        n == IF hex THEN HexPrefix(h, 0) ELSE DigitPrefix(t, 0)
    IN  IF hex /\ (h = <<>> \/ Head(h) \notin DOMAIN HexDigits) THEN NaN
        ELSE IF ~hex /\ (t = <<>> \/ Head(t) \notin DOMAIN Digits) THEN NaN
        ELSE IF neg THEN Num(0 - n) ELSE Num(n)

\* only NaN replaced by the default: a parsed zero is kept
OrDefault_ZeroKept(x, d) == IF x.nan THEN d ELSE x.value

\* x || d for a number x: NaN and 0 are falsy
OrDefault(x, d) == IF x.nan \/ x.value = 0 THEN d ELSE x.value

ExpiryHours(e) == OrDefault(ParseInt(e), DefaultExpiryHours)

\* the comparison turned round: young records count as expired
IsTokenExpired_Flipped(createdAt) ==
    now - createdAt < ExpiryHours(env) * HourMs

\* the comparison made non-strict: a record expires at the window
IsTokenExpired_AtWindow(createdAt) ==
    now - createdAt >= ExpiryHours(env) * HourMs

IsTokenExpired(createdAt) ==
    LET expiryHours == ExpiryHours(env)
        expiryMs == expiryHours * HourMs
    IN  now - createdAt > expiryMs

\* the clock is observed a whole window apart: a record's age is then below,
\* exactly at, or beyond the window
ClockSteps == { ExpiryHours(env) * HourMs }

reasons == [code \in {"no-longer-needed", "privacy-concerns", "too-many-emails",
                      "switching-service", "difficult-to-use", "other"} |->
    CASE code = "no-longer-needed" -> "I no longer need this account"
      [] code = "privacy-concerns" -> "Privacy concerns"
      [] code = "too-many-emails" -> "Receiving too many emails"
      [] code = "switching-service" -> "Switching to a different service"
      [] code = "difficult-to-use" -> "The service is difficult to use"
      [] code = "other" -> "Other reason"]

\* JavaScript values a property lookup can yield: a string, a function
\* (named by the property it was found under), or undefined
JSString(s) == [type |-> "string", value |-> s]
JSFunction(name) == [type |-> "function", value |-> name]
JSUndefined == [type |-> "undefined", value |-> ""]
Truthy(v) == v.type = "function" \/ (v.type = "string" /\ v.value # "")

\* names every object literal inherits from Object.prototype, each bound
\* to a function
ObjectPrototype == {"constructor", "toString", "valueOf", "hasOwnProperty"}

\* reasons[reasonCode]: an own property, else one inherited from
\* Object.prototype, else undefined
ReasonsLookup(reasonCode) ==
    IF reasonCode \in DOMAIN reasons THEN JSString(reasons[reasonCode])
    ELSE IF reasonCode \in ObjectPrototype THEN JSFunction(reasonCode)
    ELSE JSUndefined

\* reasons[reasonCode] || reasonCode
getReasonText(reasonCode) ==
    IF Truthy(ReasonsLookup(reasonCode)) THEN ReasonsLookup(reasonCode)
    ELSE JSString(reasonCode)

(***************************************************************************)
(* The file store                                                          *)
(***************************************************************************)
\* JSON.stringify(data, null, 2) and back: a property whose value is a
\* function is left out of the text, a string survives as it is
Stringify(data) ==
    [f \in {g \in DOMAIN data :
               ~(g = "reasonText" /\ data[g].type = "function")} |-> data[f]]

\* the write lost: no file is created or replaced
saveRequest_Lost(st, token, data) == st

\* writeFileSync(data/<token>.json, JSON.stringify(data))
saveRequest(st, token, data) ==
    [t \in DOMAIN st \cup {token} |->
        IF t = token THEN Stringify(data) ELSE st[t]]

\* a lookup that answers null for a record older than the window
getRequest_HideExpired(st, token) ==
    IF token \in DOMAIN st /\ ~IsTokenExpired(st[token].createdAt)
    THEN << st[token] >> ELSE <<>>

\* the parsed file as a one-element sequence, <<>> for null
getRequest(st, token) == IF token \in DOMAIN st THEN << st[token] >> ELSE <<>>

\* the unlink left out
deleteRequest_Keep(st, token) == st

\* unlinkSync, when the file exists
deleteRequest(st, token) == [t \in DOMAIN st \ {token} |-> st[t]]

\* fs.readdirSync(DATA_DIR): the file names in the order the directory yields
\* them, which is either way round relative to the order of creation
Readdir(st, order) ==
    LET n == Cardinality(DOMAIN st)
        up == [i \in 1..n |->
                 CHOOSE t \in DOMAIN st :
                     Cardinality({u \in DOMAIN st : u < t}) = i - 1]
    IN  IF order = "up" THEN up ELSE [i \in 1..n |-> up[n + 1 - i]]

\* the fs calls that throw during one scan: the files whose readFileSync
\* throws and the files whose unlinkSync throws
Faults(read, unlink) == [read |-> read, unlink |-> unlink]
NoFaults == Faults({}, {})

\* the match of line 123 without its !data.confirmed
RECURSIVE ScanFiles_AnyRecord(_, _, _, _)
ScanFiles_AnyRecord(st, email, files, bad) ==
    IF files = <<>>
    THEN [found |-> FALSE, store |-> st, cleaned |-> 0, errors |-> 0]
    ELSE IF Head(files) \in bad.read
    THEN LET rest == ScanFiles_AnyRecord(st, email, Tail(files), bad)
         IN  [rest EXCEPT !.errors = @ + 1]
    ELSE LET data == st[Head(files)] IN
         IF data.email = email
         THEN IF IsTokenExpired(data.createdAt)
              THEN IF Head(files) \in bad.unlink
                   THEN LET rest == ScanFiles_AnyRecord(st, email,
                                                        Tail(files), bad)
                        IN  [rest EXCEPT !.errors = @ + 1]
                   ELSE LET rest == ScanFiles_AnyRecord(
                                        deleteRequest(st, Head(files)),
                                        email, Tail(files), bad)
                        IN  [rest EXCEPT !.cleaned = @ + 1]
              ELSE [found |-> TRUE, store |-> st, cleaned |-> 0,
                    errors |-> 0]
         ELSE ScanFiles_AnyRecord(st, email, Tail(files), bad)

\* the loop of hasPendingRequest over the listed files; the result is the
\* return value, the store the loop leaves, the number of "Cleaned up"
\* lines it logs and the number of "Error reading" lines it logs.  An fs
\* call that throws lands in the catch block of lines 133-135, which logs
\* and lets the loop go on with the next file.
RECURSIVE ScanFiles(_, _, _, _)
ScanFiles(st, email, files, bad) ==
    IF files = <<>>
    THEN [found |-> FALSE, store |-> st, cleaned |-> 0, errors |-> 0]
    ELSE IF Head(files) \in bad.read
    THEN LET rest == ScanFiles(st, email, Tail(files), bad)
         IN  [rest EXCEPT !.errors = @ + 1]
    ELSE LET data == st[Head(files)] IN
         IF data.email = email /\ ~data.confirmed
         THEN IF IsTokenExpired(data.createdAt)
              THEN IF Head(files) \in bad.unlink
                   THEN LET rest == ScanFiles(st, email, Tail(files), bad)
                        IN  [rest EXCEPT !.errors = @ + 1]
                   ELSE LET rest == ScanFiles(deleteRequest(st, Head(files)),
                                              email, Tail(files), bad)
                        IN  [rest EXCEPT !.cleaned = @ + 1]
              ELSE [found |-> TRUE, store |-> st, cleaned |-> 0,
                    errors |-> 0]
         ELSE ScanFiles(st, email, Tail(files), bad)

\* the file-name filter matches no file, so the loop body never runs
hasPendingRequest_NoFiles(email, order, bad) ==
    ScanFiles(store, email, <<>>, bad)

\* the expired files are not unlinked
hasPendingRequest_NoCleanup(email, order, bad) ==
    ScanFiles(store, email, Readdir(store, order),
              Faults(bad.read, DOMAIN store))

hasPendingRequest(email, order, bad) ==
    ScanFiles(store, email, Readdir(store, order), bad)

(***************************************************************************)
(* Handlers                                                                *)
(***************************************************************************)
\* a handler inside its synchronous code: its position and its locals
\* (data is the confirm handler's requestData, as a one-element sequence)
Handler(pc, email, reason, feedback, token, data) ==
    [pc |-> pc, email |-> email, reason |-> reason, feedback |-> feedback,
     token |-> token, data |-> data]

\* the handler is left in the list when it reaches its await
RemoveAt_Keep(seq, i) == seq

RemoveAt(seq, i) == [j \in 1..(Len(seq) - 1) |-> IF j < i THEN seq[j] ELSE seq[j + 1]]

Event(op, result, email, token) ==
    [op |-> op, result |-> result, email |-> email, token |-> token]

\* the outcome of a submission that ran the scan, with the number of
\* "Cleaned up expired request" lines (line 128) and of "Error reading"
\* lines (line 134) the scan logged
ScanEvent(result, email, cleaned, errors) ==
    [op |-> "submit", result |-> result, email |-> email, token |-> 0,
     cleaned |-> cleaned, errors |-> errors]

\* handlers interleaving inside their synchronous code
LoopFree_Interleaved == TRUE

\* run-to-completion: a handler or a promise callback starts only when no
\* handler is inside its synchronous code
LoopFree == running = <<>>

\* !email || !email.includes('@'), and !reason
ValidEmail(email) == email # <<>> /\ Includes(email, "@")
\* the reason is not validated
ValidBody_EmailOnly(email, reason) == ValidEmail(email)

ValidBody(email, reason) == ValidEmail(email) /\ reason # ""

\* POST /request-deletion, lines 161-184: validation and the duplicate
\* check, with the fs calls in bad throwing during the scan
RequestDeletion(email, reason, feedback, bad) ==
    /\ LoopFree
    /\ UNCHANGED <<now, env, issued, pending, confirmationMails, supportMails,
                   confirmedCount>>
    /\ IF ~ValidBody(email, reason)
       THEN /\ last' = Event("submit", "validation", <<>>, 0)
            /\ UNCHANGED <<store, running>>
       ELSE \E order \in {"up", "down"} :
            LET scan == hasPendingRequest(email, order, bad) IN
            /\ store' = scan.store
            /\ IF scan.found
               THEN /\ last' = ScanEvent("duplicate", email, scan.cleaned,
                                         scan.errors)
                    /\ UNCHANGED running
               ELSE /\ issued < MaxTokens
                    /\ Cardinality(pending) < MaxInflight
                    /\ last' = ScanEvent("checked", email, scan.cleaned,
                                         scan.errors)
                    /\ running' = Append(running,
                           Handler("create", email, reason, feedback, 0, <<>>))

\* POST /request-deletion up to the duplicate check, every fs call succeeding
SubmitBegin(email, reason, feedback) ==
    RequestDeletion(email, reason, feedback, NoFaults)

\* a generator that returns again the token it returned last
uuidv4_Reused == IF issued = 0 THEN issued + 1 ELSE issued

\* uuidv4(): a token never returned before
uuidv4 == issued + 1

\* the feedback field left out of the record
NewRequest_NoFeedback(email, reason, feedback, token) ==
    [email |-> email, reason |-> reason, reasonText |-> getReasonText(reason),
     feedback |-> "", token |-> token, createdAt |-> now,
     confirmed |-> FALSE]

\* the requestData object of lines 192-200 (feedback || '' is feedback)
NewRequest(email, reason, feedback, token) ==
    [email |-> email, reason |-> reason, reasonText |-> getReasonText(reason),
     feedback |-> feedback, token |-> token, createdAt |-> now,
     confirmed |-> FALSE]

\* POST /request-deletion, lines 186-204: token, record, save
SubmitCreate(i) ==
    /\ i \in 1..Len(running)
    /\ running[i].pc = "create"
    /\ LET h == running[i]
           token == uuidv4
       IN  /\ issued' = issued + 1
           /\ store' = saveRequest(store, token,
                           NewRequest(h.email, h.reason, h.feedback, token))
           /\ last' = Event("submit", "created", h.email, token)
           /\ running' = [running EXCEPT ![i] =
                             Handler("send", h.email, h.reason, h.feedback,
                                     token, <<>>)]
    /\ UNCHANGED <<now, env, pending, confirmationMails, supportMails,
                   confirmedCount>>

\* POST /request-deletion, lines 206-254: the confirmation email with the
\* link is handed to the transport, and the handler awaits
SubmitSend(i) ==
    /\ i \in 1..Len(running)
    /\ running[i].pc = "send"
    /\ LET token == running[i].token
       IN  /\ pending' = pending \cup {[kind |-> "confirmation", token |-> token]}
           /\ confirmationMails' = [confirmationMails EXCEPT ![token] = @ + 1]
    /\ running' = RemoveAt(running, i)
    /\ UNCHANGED <<store, now, env, issued, supportMails, confirmedCount, last>>

\* the double-confirmation check left out
ConfirmOutcome_NoUsedCheck(found) ==
    IF found = <<>> THEN "notFound"
    ELSE IF IsTokenExpired(found[1].createdAt) THEN "expired"
    ELSE "pendingValid"

\* the existence check left out: reading createdAt of null throws, and the
\* catch block answers 500
ConfirmOutcome_NullDeref(found) ==
    IF found = <<>> THEN "error"
    ELSE IF IsTokenExpired(found[1].createdAt) THEN "expired"
    ELSE IF found[1].confirmed THEN "alreadyConfirmed"
    ELSE "pendingValid"

\* the branch GET /confirm/:token takes on what getRequest returned,
\* lines 281-305
ConfirmOutcome(found) ==
    IF found = <<>> THEN "notFound"
    ELSE IF IsTokenExpired(found[1].createdAt) THEN "expired"
    ELSE IF found[1].confirmed THEN "alreadyConfirmed"
    ELSE "pendingValid"

\* GET /confirm/:token, lines 275-305: lookup, expiry, already-confirmed
ConfirmBegin(token) ==
    /\ LoopFree
    /\ UNCHANGED <<now, env, issued, pending, confirmationMails, supportMails,
                   confirmedCount>>
    /\ LET found == getRequest(store, token)
           outcome == ConfirmOutcome(found)
       IN  /\ last' = Event("confirm", outcome, <<>>, token)
           /\ store' = IF outcome = "expired" THEN deleteRequest(store, token)
                       ELSE store
           /\ IF outcome = "pendingValid"
              THEN /\ Cardinality(pending) < MaxInflight
                   /\ running' = Append(running,
                          Handler("mark", <<>>, "", "", token, found))
              ELSE UNCHANGED running

\* the flag set without the time stamp
MarkConfirmed_NoStamp(data) == [data EXCEPT !.confirmed = TRUE]

\* the confirmation also restamps createdAt
MarkConfirmed_Restamped(data) ==
    [f \in DOMAIN data \cup {"confirmedAt"} |->
        IF f = "confirmed" THEN TRUE
        ELSE IF f \in {"confirmedAt", "createdAt"} THEN now
        ELSE data[f]]

\* the record written back as it was read
MarkConfirmed_Unmarked(data) == data

\* confirmedAt stamped with the creation time instead of the current time
MarkConfirmed_CreatedAt(data) ==
    [f \in DOMAIN data \cup {"confirmedAt"} |->
        IF f = "confirmed" THEN TRUE
        ELSE IF f = "confirmedAt" THEN data.createdAt
        ELSE data[f]]

\* requestData.confirmed = true; requestData.confirmedAt = new Date()
MarkConfirmed(data) ==
    [f \in DOMAIN data \cup {"confirmedAt"} |->
        IF f = "confirmed" THEN TRUE
        ELSE IF f = "confirmedAt" THEN now
        ELSE data[f]]

\* GET /confirm/:token, lines 307-311: mark, save
ConfirmMark(i) ==
    /\ i \in 1..Len(running)
    /\ running[i].pc = "mark"
    /\ LET h == running[i] IN
       /\ store' = saveRequest(store, h.token, MarkConfirmed(h.data[1]))
       /\ confirmedCount' = [confirmedCount EXCEPT ![h.token] = @ + 1]
       /\ last' = Event("confirm", "confirmed", <<>>, h.token)
       /\ running' = [running EXCEPT ![i] =
                         Handler("notify", <<>>, "", "", h.token, <<>>)]
    /\ UNCHANGED <<now, env, issued, pending, confirmationMails, supportMails>>

\* GET /confirm/:token, lines 313-341: the support notification is handed
\* to the transport, and the handler awaits
ConfirmNotify(i) ==
    /\ i \in 1..Len(running)
    /\ running[i].pc = "notify"
    /\ LET token == running[i].token
       IN  /\ pending' = pending \cup {[kind |-> "support", token |-> token]}
           /\ supportMails' = [supportMails EXCEPT ![token] = @ + 1]
    /\ running' = RemoveAt(running, i)
    /\ UNCHANGED <<store, now, env, issued, confirmationMails, confirmedCount,
                   last>>

\* the sendMail promise resolves: the handler sends its success response
MailResolve(m) ==
    /\ m \in pending
    /\ LoopFree
    /\ pending' = pending \ {m}
    /\ last' = Event(m.kind, "sent", <<>>, m.token)
    /\ UNCHANGED <<store, now, env, issued, running, confirmationMails,
                   supportMails, confirmedCount>>

\* a catch block that also removes the record of the token
MailReject_Rollback(m) ==
    /\ m \in pending
    /\ LoopFree
    /\ pending' = pending \ {m}
    /\ store' = deleteRequest(store, m.token)
    /\ last' = Event(m.kind, "error", <<>>, m.token)
    /\ UNCHANGED <<now, env, issued, running, confirmationMails,
                   supportMails, confirmedCount>>

\* the sendMail promise rejects: the catch block answers 500
MailReject(m) ==
    /\ m \in pending
    /\ LoopFree
    /\ pending' = pending \ {m}
    /\ last' = Event(m.kind, "error", <<>>, m.token)
    /\ UNCHANGED <<store, now, env, issued, running, confirmationMails,
                   supportMails, confirmedCount>>

\* the wall clock advances
Tick(d) ==
    /\ now + d <= MaxWindows * ExpiryHours(env) * HourMs
    /\ now' = now + d
    /\ UNCHANGED <<store, env, issued, running, pending, confirmationMails,
                   supportMails, confirmedCount, last>>

Init ==
    /\ store = << >>
    /\ now = 0
    /\ env \in EnvValues
    /\ issued = 0
    /\ running = <<>>
    /\ pending = {}
    /\ confirmationMails = [t \in Tokens |-> 0]
    /\ supportMails = [t \in Tokens |-> 0]
    /\ confirmedCount = [t \in Tokens |-> 0]
    /\ last = Event("none", "none", <<>>, 0)

Next ==
    \/ \E b \in Bodies : SubmitBegin(b.email, b.reason, b.feedback)
    \/ \E i \in 1..Len(running) : SubmitCreate(i)
    \/ \E i \in 1..Len(running) : SubmitSend(i)
    \/ \E token \in Tokens : ConfirmBegin(token)
    \/ \E i \in 1..Len(running) : ConfirmMark(i)
    \/ \E i \in 1..Len(running) : ConfirmNotify(i)
    \/ \E m \in pending : MailResolve(m)
    \/ \E m \in pending : MailReject(m)
    \/ \E d \in ClockSteps : Tick(d)

Spec == Init /\ [][Next]_vars

(***************************************************************************)
(* Scheduling                                                              *)
(***************************************************************************)
\* the sendMail promises a run can create
Mails == [kind : {"confirmation", "support"}, token : Tokens]

\* a handler that is inside its synchronous code runs on to its await, and
\* every transport call settles: its promise resolves or rejects, and the
\* event loop then runs the continuation
Fairness ==
    /\ WF_vars(\E i \in 1..Len(running) :
                  \/ SubmitCreate(i)
                  \/ SubmitSend(i)
                  \/ ConfirmMark(i)
                  \/ ConfirmNotify(i))
    /\ \A m \in Mails : WF_vars(MailResolve(m) \/ MailReject(m))

FairSpec == Spec /\ Fairness

(***************************************************************************)
(* Configuration                                                           *)
(***************************************************************************)
\* settings of TOKEN_EXPIRY_HOURS a deployment can carry: not set, a word,
\* zero, a positive and a negative integer, an integer followed by a unit
\* letter, and an integer in hexadecimal notation
ConfigValues == { Undefined,
                  <<"x">>,
                  <<"0">>,
                  <<"4", "8">>,
                  <<"-", "1">>,
                  <<"2", "h">>,
                  <<"0", "x", "3">> }

\* the state after start-up under any of these settings
ConfigInit ==
    /\ store = << >>
    /\ now = 0
    /\ env \in ConfigValues
    /\ issued = 0
    /\ running = <<>>
    /\ pending = {}
    /\ confirmationMails = [t \in Tokens |-> 0]
    /\ supportMails = [t \in Tokens |-> 0]
    /\ confirmedCount = [t \in Tokens |-> 0]
    /\ last = Event("none", "none", <<>>, 0)

\* the program driven by one requester
ConfigBody == Body(<<"a", "@", "b">>, "other", "")

ConfigNext ==
    \/ SubmitBegin(ConfigBody.email, ConfigBody.reason, ConfigBody.feedback)
    \/ \E i \in 1..Len(running) : SubmitCreate(i)
    \/ \E i \in 1..Len(running) : SubmitSend(i)
    \/ \E token \in Tokens : ConfirmBegin(token)
    \/ \E i \in 1..Len(running) : ConfirmMark(i)
    \/ \E i \in 1..Len(running) : ConfirmNotify(i)
    \/ \E m \in pending : MailResolve(m)
    \/ \E m \in pending : MailReject(m)
    \/ \E d \in ClockSteps : Tick(d)

ConfigSpec == ConfigInit /\ [][ConfigNext]_vars

(***************************************************************************)
(* Reason codes                                                            *)
(***************************************************************************)
\* reason strings a form or a client can post: the six codes of the form,
\* a string that is no code, and two names of Object.prototype
ReasonStrings ==
    DOMAIN reasons \cup {"slow-app", "toString", "constructor"}

\* submissions of one requester that differ in the reason only
ReasonBodies == { Body(<<"a", "@", "b">>, r, "") : r \in ReasonStrings }

ReasonNext ==
    \/ \E b \in ReasonBodies : SubmitBegin(b.email, b.reason, b.feedback)
    \/ Next

ReasonSpec == Init /\ [][ReasonNext]_vars

(***************************************************************************)
(* Storage faults                                                          *)
(***************************************************************************)
\* a submission during whose scan one fs call throws: the read or the
\* unlink of one stored file
SubmitBeginFault(email, reason, feedback, bad) ==
    /\ bad \in {Faults({t}, {}) : t \in DOMAIN store}
               \cup {Faults({}, {t}) : t \in DOMAIN store}
    /\ RequestDeletion(email, reason, feedback, bad)

\* writeFileSync throws in saveRequest at line 203: the catch block of
\* lines 262-267 answers 500, and no email is sent
SubmitCreateFault(i) ==
    /\ i \in 1..Len(running)
    /\ running[i].pc = "create"
    /\ issued' = issued + 1
    /\ last' = Event("submit", "error", running[i].email, 0)
    /\ running' = RemoveAt(running, i)
    /\ UNCHANGED <<store, now, env, pending, confirmationMails, supportMails,
                   confirmedCount>>

\* readFileSync or JSON.parse throws in getRequest at line 278: the catch
\* block of lines 347-355 answers 500
ConfirmBeginFault(token) ==
    /\ LoopFree
    /\ token \in DOMAIN store
    /\ last' = Event("confirm", "error", <<>>, token)
    /\ UNCHANGED <<store, now, env, issued, running, pending,
                   confirmationMails, supportMails, confirmedCount>>

\* writeFileSync throws in saveRequest at line 310: the catch block answers
\* 500, and no notification is sent
ConfirmMarkFault(i) ==
    /\ i \in 1..Len(running)
    /\ running[i].pc = "mark"
    /\ last' = Event("confirm", "error", <<>>, running[i].token)
    /\ running' = RemoveAt(running, i)
    /\ UNCHANGED <<store, now, env, issued, pending, confirmationMails,
                   supportMails, confirmedCount>>

FaultNext ==
    \/ Next
    \/ \E b \in Bodies : \E t \in DOMAIN store :
          \E bad \in {Faults({t}, {}), Faults({}, {t})} :
             SubmitBeginFault(b.email, b.reason, b.feedback, bad)
    \/ \E i \in 1..Len(running) : SubmitCreateFault(i)
    \/ \E token \in Tokens : ConfirmBeginFault(token)
    \/ \E i \in 1..Len(running) : ConfirmMarkFault(i)

FaultSpec == Init /\ [][FaultNext]_vars

(***************************************************************************)
(* Properties                                                              *)
(***************************************************************************)
\* the expiry window, and the rule of the data model: a record is expired
\* iff it is unconfirmed and older than the window
WindowMs == ExpiryHours(env) * HourMs
Expired(rec) == ~rec.confirmed /\ now - rec.createdAt > WindowMs
Active(rec) == ~rec.confirmed /\ ~(now - rec.createdAt > WindowMs)
ActiveTokens(email) ==
    {t \in DOMAIN store : store[t].email = email /\ Active(store[t])}

\* C1: in every reachable state each email has at most one stored record
\* that is unconfirmed and unexpired.
C1_OneActivePerEmail ==
    \A t1 \in DOMAIN store : \A t2 \in DOMAIN store :
        (/\ store[t1].email = store[t2].email
         /\ Active(store[t1])
         /\ Active(store[t2])) => t1 = t2

\* two records of one email are stored, one of them active
C1_Witness ==
    \E t1 \in DOMAIN store : \E t2 \in DOMAIN store :
        /\ t1 # t2
        /\ store[t1].email = store[t2].email
        /\ Active(store[t1])

\* what a submission that is turned away leaves alone
SubmitNoEffect ==
    /\ store' = store
    /\ issued' = issued
    /\ running' = running
    /\ pending' = pending
    /\ confirmationMails' = confirmationMails

\* C2 as stated: while an active record exists for an email, every further
\* submission for that email is rejected as a duplicate, persists nothing
\* and sends no confirmation email.
C2_EverySubmissionDuplicate ==
    [][\A b \in Bodies :
          (/\ last'.op = "submit"
           /\ ActiveTokens(b.email) # {}
           /\ SubmitBegin(b.email, b.reason, b.feedback))
          => (last'.result = "duplicate" /\ SubmitNoEffect)]_vars

\* C2 as amended: while an active record exists for an email, a further
\* submission for that email is rejected as a duplicate when it names a
\* reason and by validation when it names none; either way it persists
\* nothing and sends no confirmation email.
C2_DuplicateRejected ==
    [][\A b \in Bodies :
          (/\ last'.op = "submit"
           /\ ActiveTokens(b.email) # {}
           /\ SubmitBegin(b.email, b.reason, b.feedback))
          => (/\ last'.result = IF b.reason = "" THEN "validation"
                                ELSE "duplicate"
              /\ SubmitNoEffect)]_vars

\* a submission was rejected as a duplicate of a record that is still active
C2_Witness ==
    /\ last.op = "submit"
    /\ last.result = "duplicate"
    /\ ActiveTokens(last.email) # {}

\* C3: a submission that has passed the duplicate check and has not yet
\* written its record is never accompanied by another submission for the
\* same email in that position, nor by an active record for that email.
C3_CheckThenCreateAtomic ==
    \A i \in 1..Len(running) :
        running[i].pc = "create" =>
            /\ \A j \in 1..Len(running) :
                   (running[j].pc = "create"
                      /\ running[j].email = running[i].email) => j = i
            /\ ActiveTokens(running[i].email) = {}

\* a second submission for an email arrived while the first was still
\* awaiting its sendMail, and was rejected
C3_Witness ==
    /\ last.op = "submit"
    /\ last.result = "duplicate"
    /\ \E m \in pending :
           /\ m.kind = "confirmation"
           /\ m.token \in DOMAIN store
           /\ store[m.token].email = last.email

\* C4: confirm on an unconfirmed, unexpired record sets confirmed = true and
\* confirmedAt = now, writes the record under the same token, and returns
\* the confirmed result.
C4_ConfirmPending ==
    [][/\ \A t \in Tokens :
             (/\ last'.op = "confirm"
              /\ t \in DOMAIN store
              /\ Active(store[t])
              /\ ConfirmBegin(t))
             => (/\ last'.result = "pendingValid"
                 /\ Len(running') = 1
                 /\ running'[1].pc = "mark"
                 /\ running'[1].token = t)
       /\ \A i \in 1..Len(running) :
             (last'.result = "confirmed" /\ ConfirmMark(i))
             => LET t == running[i].token IN
                /\ t \in DOMAIN store'
                /\ store'[t].confirmed
                /\ store'[t].confirmedAt = now
                /\ store'[t].token = t
                /\ DOMAIN store' = DOMAIN store
                /\ last' = Event("confirm", "confirmed", <<>>, t)]_vars

\* a confirm has just marked a record that was created earlier
C4_Witness ==
    /\ last.op = "confirm"
    /\ last.result = "confirmed"
    /\ last.token \in DOMAIN store
    /\ store[last.token].confirmed
    /\ store[last.token].confirmedAt = now
    /\ store[last.token].createdAt < now

\* C5: for each token at most one confirm call returns the confirmed result,
\* and once confirmedAt is set no later step changes its value.
C5_TransitionOnce ==
    /\ [](\A t \in Tokens : confirmedCount[t] <= 1)
    /\ [][\A t \in DOMAIN store :
             ("confirmedAt" \in DOMAIN store[t] /\ t \in DOMAIN store')
             => (/\ "confirmedAt" \in DOMAIN store'[t]
                 /\ store'[t].confirmedAt = store[t].confirmedAt)]_vars

\* a later confirm of a confirmed token, at a later time, left confirmedAt
C5_Witness ==
    /\ last.op = "confirm"
    /\ last.result = "alreadyConfirmed"
    /\ confirmedCount[last.token] = 1
    /\ last.token \in DOMAIN store
    /\ store[last.token].confirmedAt < now

\* C6: when a confirm call finishes while the confirm call that made the
\* transition on the same token is still awaiting its sendMail, it observes
\* alreadyConfirmed.
C6_ConcurrentConfirm ==
    (/\ last.op = "confirm"
     /\ last.result # "confirmed"
     /\ [kind |-> "support", token |-> last.token] \in pending)
    => last.result = "alreadyConfirmed"

\* C7: confirm on a record that is already confirmed returns
\* alreadyConfirmed, whatever time has passed since createdAt.
C7_ConfirmedNeverExpired ==
    [][\A t \in Tokens :
          (/\ last'.op = "confirm"
           /\ t \in DOMAIN store
           /\ store[t].confirmed
           /\ ConfirmBegin(t))
          => last'.result = "alreadyConfirmed"]_vars

\* C8: no step deletes a record whose confirmed flag is true.
C8_ConfirmedRetained ==
    [][\A t \in DOMAIN store :
          store[t].confirmed
          => (t \in DOMAIN store' /\ store'[t].confirmed)]_vars

\* C9: confirm on an unconfirmed record whose window has elapsed returns
\* expired and deletes the record, so that a lookup of the token then finds
\* nothing.
C9_ExpiredConfirm ==
    /\ []((last.op = "confirm" /\ last.result = "expired")
            => getRequest(store, last.token) = <<>>)
    /\ [][\A t \in Tokens :
             (/\ last'.op = "confirm"
              /\ t \in DOMAIN store
              /\ Expired(store[t])
              /\ ConfirmBegin(t))
             => (/\ last'.result = "expired"
                 /\ getRequest(store', t) = <<>>)]_vars

\* a confirm found a never-confirmed record expired and removed it
C9_Witness ==
    /\ last.op = "confirm"
    /\ last.result = "expired"
    /\ last.token <= issued
    /\ confirmedCount[last.token] = 0
    /\ last.token \notin DOMAIN store

\* C10: confirm for a token under which no record is stored returns
\* notFound, leaves the store unchanged and hands no notification to the
\* transport.
C10_ConfirmNotFound ==
    [][\A t \in Tokens :
          (/\ last'.op = "confirm"
           /\ t \notin DOMAIN store
           /\ ConfirmBegin(t))
          => (/\ last'.result = "notFound"
              /\ store' = store
              /\ running' = running
              /\ pending' = pending
              /\ supportMails' = supportMails)]_vars

\* a confirm of a token whose record had been deleted returned notFound
C10_Witness ==
    /\ last.op = "confirm"
    /\ last.result = "notFound"
    /\ last.token <= issued
    /\ last.token \notin DOMAIN store

\* C11: a valid submission for an email with no active request passes the
\* duplicate check and then persists exactly one new record, under a token
\* never issued before; a lookup of that token right afterwards yields an
\* unconfirmed, unexpired record whose email, reason and feedback are the
\* inputs.
C11_SubmitCreates ==
    [][/\ \A b \in Bodies :
             (/\ last'.op = "submit"
              /\ ValidBody(b.email, b.reason)
              /\ ActiveTokens(b.email) = {}
              /\ SubmitBegin(b.email, b.reason, b.feedback))
             => (/\ last'.result = "checked"
                 /\ DOMAIN store' \subseteq DOMAIN store
                 /\ running' = << Handler("create", b.email, b.reason,
                                          b.feedback, 0, <<>>) >>)
       /\ \A i \in 1..Len(running) :
             (last'.result = "created" /\ SubmitCreate(i))
             => LET h == running[i]
                    t == last'.token
                    found == getRequest(store', t)
                IN  /\ t > issued
                    /\ t \notin DOMAIN store
                    /\ DOMAIN store' = DOMAIN store \cup {t}
                    /\ \A u \in DOMAIN store : store'[u] = store[u]
                    /\ found # <<>>
                    /\ found[1].confirmed = FALSE
                    /\ ~(now' - found[1].createdAt > WindowMs)
                    /\ found[1].email = h.email
                    /\ found[1].reason = h.reason
                    /\ found[1].feedback = h.feedback
                    /\ found[1].token = t]_vars

\* a submission carrying feedback has just been persisted, next to an older
\* record
C11_Witness ==
    /\ last.op = "submit"
    /\ last.result = "created"
    /\ last.token \in DOMAIN store
    /\ store[last.token].feedback = "fb"
    /\ store[last.token].createdAt = now
    /\ DOMAIN store # {last.token}

\* C12: once the clock is past the window of an email's unconfirmed record,
\* hasActiveRequest for that email returns false and removes the record, so
\* a lookup of its token finds nothing; a new submission for the email
\* passes the duplicate check and goes on to create its record.
C12_ExpiredReclaimed ==
    /\ [](\A t \in DOMAIN store :
            Expired(store[t])
            => \A order \in {"up", "down"} :
                  LET scan == hasPendingRequest(store[t].email, order, NoFaults)
                  IN  /\ ~scan.found
                      /\ getRequest(scan.store, t) = <<>>
                      /\ ConfirmOutcome(getRequest(scan.store, t)) = "notFound")
    /\ [][\A b \in Bodies : \A t \in DOMAIN store :
             (/\ last'.op = "submit"
              /\ ValidBody(b.email, b.reason)
              /\ store[t].email = b.email
              /\ Expired(store[t])
              /\ SubmitBegin(b.email, b.reason, b.feedback))
             => (/\ last'.result = "checked"
                 /\ getRequest(store', t) = <<>>
                 /\ running' = << Handler("create", b.email, b.reason,
                                          b.feedback, 0, <<>>) >>)]_vars

\* a submission passed the duplicate check after its scan had removed an
\* expired record of the same email
C12_Witness ==
    /\ last.op = "submit"
    /\ last.result = "checked"
    /\ last.cleaned = 1
    /\ \A t \in DOMAIN store : store[t].email # last.email

\* the stored records of an email
RecordsOf(email) == {t \in DOMAIN store : store[t].email = email}

\* C13: when the only stored records of an email are confirmed ones,
\* hasActiveRequest for that email returns false and leaves them stored,
\* and a new submission for the email passes the duplicate check and goes on
\* to create its record, whatever the age of the confirmed records.
C13_ConfirmedNotActive ==
    /\ [](\A email \in {store[t].email : t \in DOMAIN store} :
            (\A t \in RecordsOf(email) : store[t].confirmed)
            => \A order \in {"up", "down"} :
                  LET scan == hasPendingRequest(email, order, NoFaults)
                  IN  ~scan.found /\ scan.store = store)
    /\ [][\A b \in Bodies :
             (/\ last'.op = "submit"
              /\ last'.email = b.email
              /\ ValidBody(b.email, b.reason)
              /\ RecordsOf(b.email) # {}
              /\ \A t \in RecordsOf(b.email) : store[t].confirmed
              /\ SubmitBegin(b.email, b.reason, b.feedback))
             => (/\ last'.result = "checked"
                 /\ store' = store
                 /\ running' = << Handler("create", b.email, b.reason,
                                          b.feedback, 0, <<>>) >>)]_vars

\* a submission passed the duplicate check while a confirmed record of the
\* same email, older than the window, was stored
C13_Witness ==
    /\ last.op = "submit"
    /\ last.result = "checked"
    /\ \E t \in RecordsOf(last.email) :
           store[t].confirmed /\ now - store[t].createdAt > WindowMs

\* C14: the support notification is handed to the transport at most once
\* per token, and only by the confirm call that has just turned the stored
\* record from unconfirmed to confirmed; a confirm that ends notFound,
\* expired or alreadyConfirmed hands over none and schedules none.
C14_NotifyOncePerTransition ==
    /\ [](\A t \in Tokens : supportMails[t] <= 1)
    /\ [](\A i \in 1..Len(running) :
            running[i].pc = "notify"
            => (/\ confirmedCount[running[i].token] = 1
                /\ supportMails[running[i].token] = 0))
    /\ [][/\ \A t \in Tokens :
                confirmedCount'[t] # confirmedCount[t]
                => (/\ t \in DOMAIN store
                    /\ ~store[t].confirmed
                    /\ t \in DOMAIN store'
                    /\ store'[t].confirmed
                    /\ last' = Event("confirm", "confirmed", <<>>, t))
          /\ \A t \in Tokens :
                supportMails'[t] # supportMails[t]
                => (/\ supportMails'[t] = supportMails[t] + 1
                    /\ \E i \in 1..Len(running) :
                          /\ running[i].pc = "notify"
                          /\ running[i].token = t
                          /\ ConfirmNotify(i)
                    /\ last = Event("confirm", "confirmed", <<>>, t)
                    /\ [kind |-> "support", token |-> t] \in pending' \ pending)
          /\ (/\ last'.op = "confirm"
              /\ last'.result \in {"notFound", "expired", "alreadyConfirmed"}
              /\ \E t \in Tokens : ConfirmBegin(t))
             => (/\ supportMails' = supportMails
                 /\ pending' = pending
                 /\ running' = running)]_vars

\* a second confirm of a token ended alreadyConfirmed while the notification
\* of the first was still with the transport, and handed over none
C14_Witness ==
    /\ last.op = "confirm"
    /\ last.result = "alreadyConfirmed"
    /\ supportMails[last.token] = 1
    /\ pending = {[kind |-> "support", token |-> last.token]}

\* the record stored under t is confirmed and carries confirmedAt
StoredConfirmed(t) ==
    /\ t \in DOMAIN store
    /\ store[t].confirmed
    /\ "confirmedAt" \in DOMAIN store[t]

\* C15: the support notification for a token is handed to the transport
\* only when the confirmed record, with confirmedAt, is already in the
\* store: the handler about to notify finds it stored, the step that hands
\* the notification over starts from such a state and writes nothing, and a
\* token with a notification attempted has had its confirming write.
C15_WriteBeforeNotify ==
    /\ [](\A i \in 1..Len(running) :
            running[i].pc = "notify" => StoredConfirmed(running[i].token))
    /\ [](\A t \in Tokens : supportMails[t] > 0 => confirmedCount[t] > 0)
    /\ [][\A t \in Tokens :
             supportMails'[t] # supportMails[t]
             => (StoredConfirmed(t) /\ store' = store)]_vars

\* the notification of a token has just been handed to the transport, its
\* confirmed record being stored
C15_Witness ==
    /\ last = Event("confirm", "confirmed", <<>>, last.token)
    /\ running = <<>>
    /\ supportMails[last.token] = 1
    /\ [kind |-> "support", token |-> last.token] \in pending
    /\ StoredConfirmed(last.token)

\* C16: the confirmation email carrying a token is handed to the transport
\* only when the record of that token is already in the store: the handler
\* about to send finds it stored, the step that hands the email over starts
\* from such a state and writes nothing, and no email is sent for a token
\* that was never issued and stored.
C16_PersistBeforeSend ==
    /\ [](\A i \in 1..Len(running) :
            running[i].pc = "send"
            => (/\ running[i].token \in DOMAIN store
                /\ store[running[i].token].token = running[i].token
                /\ store[running[i].token].email = running[i].email))
    /\ [](\A t \in Tokens : confirmationMails[t] > 0 => t <= issued)
    /\ [][\A t \in Tokens :
             confirmationMails'[t] # confirmationMails[t]
             => (/\ t \in DOMAIN store
                 /\ store[t].token = t
                 /\ store' = store)]_vars

\* the confirmation email of a token has just been handed to the transport,
\* the record of the token being stored
C16_Witness ==
    /\ last.op = "submit"
    /\ last.result = "created"
    /\ running = <<>>
    /\ confirmationMails[last.token] = 1
    /\ [kind |-> "confirmation", token |-> last.token] \in pending
    /\ last.token \in DOMAIN store

\* C17: a submission during whose scan an fs call threw never ends as
\* accepted or as a duplicate: the failure reaches the caller as a storage
\* error.
C17_ScanFailurePropagates ==
    (last.op = "submit" /\ last.result \in {"checked", "duplicate"})
    => last.errors = 0

\* a body whose email is missing or has no "@", or whose reason is empty
Invalid(b) ==
    \/ b.email = <<>>
    \/ \A i \in 1..Len(b.email) : b.email[i] # "@"
    \/ b.reason = ""

\* C18: a submission whose email is missing or contains no "@", or whose
\* reason is empty, is rejected with a validation error; it leaves the store
\* as it was (no record created, no expired record removed), issues no
\* token and hands no email to the transport.
C18_InvalidRejected ==
    [][\A b \in Bodies :
          (/\ last'.op = "submit"
           /\ Invalid(b)
           /\ SubmitBegin(b.email, b.reason, b.feedback))
          => (/\ last'.result = "validation"
              /\ store' = store
              /\ issued' = issued
              /\ running' = running
              /\ pending' = pending
              /\ confirmationMails' = confirmationMails
              /\ supportMails' = supportMails)]_vars

\* a submission was rejected by validation while an expired record of the
\* email of a body without a reason stayed stored
C18_Witness ==
    /\ last.op = "submit"
    /\ last.result = "validation"
    /\ \E b \in Bodies : \E t \in DOMAIN store :
           /\ b.reason = ""
           /\ store[t].email = b.email
           /\ Expired(store[t])

\* C19: the confirmed flag of a stored record only moves from false to
\* true: no step leaves an unconfirmed record under a key whose record was
\* confirmed, and a record stored under a token whose confirmation was
\* written is confirmed.
C19_ConfirmedMonotone ==
    /\ [](\A t \in DOMAIN store : confirmedCount[t] > 0 => store[t].confirmed)
    /\ [][\A t \in DOMAIN store :
             (store[t].confirmed /\ t \in DOMAIN store')
             => store'[t].confirmed]_vars

\* a record was created for an email while a confirmed record of that email
\* stayed stored and confirmed
C19_Witness ==
    /\ last.op = "submit"
    /\ last.result = "created"
    /\ \E t \in DOMAIN store :
           /\ t # last.token
           /\ store[t].email = last.email
           /\ store[t].confirmed

\* C20: the confirm step that writes the confirmation changes only confirmed
\* and confirmedAt of the record: token, email, reason, reasonText, feedback
\* and createdAt are as before, the record stays under the same key, and no
\* other record changes.
C20_ConfirmFrame ==
    [][\A i \in 1..Len(running) :
          (last'.result = "confirmed" /\ ConfirmMark(i))
          => LET t == running[i].token IN
             /\ t \in DOMAIN store
             /\ DOMAIN store' = DOMAIN store
             /\ \A u \in DOMAIN store \ {t} : store'[u] = store[u]
             /\ DOMAIN store'[t] = DOMAIN store[t] \cup {"confirmedAt"}
             /\ \A f \in DOMAIN store[t] \ {"confirmed", "confirmedAt"} :
                   store'[t][f] = store[t][f]
             /\ {"token", "email", "reason", "reasonText", "feedback",
                 "createdAt"} \subseteq DOMAIN store[t]
             /\ store'[t].token = t]_vars

\* a record carrying feedback was confirmed later than it was created and
\* kept its fields, next to another stored record
C20_Witness ==
    /\ last.op = "confirm"
    /\ last.result = "confirmed"
    /\ last.token \in DOMAIN store
    /\ store[last.token].confirmed
    /\ store[last.token].feedback = "fb"
    /\ store[last.token].createdAt < store[last.token].confirmedAt
    /\ DOMAIN store # {last.token}

\* C21: expiry is a strict inequality on age: the code treats a stored
\* record as expired exactly when now - createdAt exceeds the window, so an
\* unconfirmed record whose age equals the window is still confirmable and
\* still makes a submission for its email a duplicate.
C21_StrictExpiry ==
    /\ [](\A t \in DOMAIN store :
            IsTokenExpired(store[t].createdAt)
            <=> (now - store[t].createdAt > WindowMs))
    /\ [][/\ \A t \in Tokens :
                (/\ last'.op = "confirm"
                 /\ t \in DOMAIN store
                 /\ ~store[t].confirmed
                 /\ now - store[t].createdAt = WindowMs
                 /\ ConfirmBegin(t))
                => (last'.result = "pendingValid" /\ store' = store)
          /\ \A b \in Bodies :
                (/\ last'.op = "submit"
                 /\ last'.email = b.email
                 /\ \E t \in DOMAIN store :
                       /\ store[t].email = b.email
                       /\ ~store[t].confirmed
                       /\ now - store[t].createdAt = WindowMs
                 /\ SubmitBegin(b.email, b.reason, b.feedback))
                => (last'.result = "duplicate" /\ store' = store)]_vars

\* a confirm found an unconfirmed record whose age is the window exactly
\* and went on to confirm it
C21_Witness ==
    /\ last.op = "confirm"
    /\ last.result = "pendingValid"
    /\ Len(running) = 1
    /\ running[1].pc = "mark"
    /\ now - running[1].data[1].createdAt = WindowMs

C23_ReasonText ==
    \A t \in DOMAIN store :
        /\ "reasonText" \in DOMAIN store[t]
        /\ store[t].reasonText =
              JSString(IF store[t].reason \in DOMAIN reasons
                       THEN reasons[store[t].reason]
                       ELSE store[t].reason)

\* C24: every stored record with confirmed = true has
\* confirmedAt - createdAt no greater than the expiry window.
C24_ConfirmedWithinWindow ==
    \A t \in DOMAIN store :
        store[t].confirmed
        => store[t].confirmedAt - store[t].createdAt <= WindowMs

\* the emails a submission can carry
Emails == {b.email : b \in Bodies}

\* C25: the hasActiveRequest scan for an email removes only records that
\* carry that email, are unconfirmed and are older than the window; every
\* other record is in the store afterwards exactly as before, and the scan
\* adds none.
C25_ScanFrame ==
    \A email \in Emails : \A order \in {"up", "down"} :
        LET scan == hasPendingRequest(email, order, NoFaults) IN
        /\ DOMAIN scan.store \subseteq DOMAIN store
        /\ \A t \in DOMAIN store :
              IF t \in DOMAIN scan.store
              THEN scan.store[t] = store[t]
              ELSE /\ store[t].email = email
                   /\ ~store[t].confirmed
                   /\ now - store[t].createdAt > WindowMs

\* the store holds a record that the scan for its email removes, next to
\* a record older than the window that the same scan keeps
C25_Witness ==
    \E email \in Emails : \E order \in {"up", "down"} :
        LET scan == hasPendingRequest(email, order, NoFaults) IN
        /\ scan.cleaned = 1
        /\ \E t \in DOMAIN scan.store : now - store[t].createdAt > WindowMs

\* C26: whenever the hasActiveRequest scan for an email returns false with
\* no fs call failing, the store it leaves holds no unconfirmed record of
\* that email: each one was older than the window and has been removed.
C26_FalseMeansNoneLeft ==
    \A email \in Emails : \A order \in {"up", "down"} :
        LET scan == hasPendingRequest(email, order, NoFaults) IN
        (~scan.found /\ scan.errors = 0)
        => /\ \A t \in DOMAIN scan.store :
                 scan.store[t].email = email => scan.store[t].confirmed
           /\ \A t \in DOMAIN store :
                 (store[t].email = email /\ ~store[t].confirmed)
                 => (/\ now - store[t].createdAt > WindowMs
                     /\ t \notin DOMAIN scan.store)

\* the scan for an email returns false after removing an expired record of
\* that email, a confirmed record of the email staying stored
C26_Witness ==
    \E email \in Emails : \E order \in {"up", "down"} :
        LET scan == hasPendingRequest(email, order, NoFaults) IN
        /\ ~scan.found
        /\ scan.errors = 0
        /\ Cardinality(DOMAIN store \ DOMAIN scan.store) = 1
        /\ \E t \in DOMAIN scan.store :
              scan.store[t].email = email /\ scan.store[t].confirmed

\* the confirmation email of a stored, still active record has just failed
ConfirmationFailed ==
    /\ last.op = "confirmation"
    /\ last.result = "error"
    /\ last.token \in DOMAIN store
    /\ Active(store[last.token])

\* C27 as stated: when the confirmation email fails, the submission ends
\* with an error and the store is left as it is, so the record stays stored
\* and unconfirmed; while it is active, every further submission for its
\* email is rejected as a duplicate.
C27_EveryFurtherDuplicate ==
    [][/\ \A m \in pending :
             (/\ last'.op = "confirmation"
              /\ m.kind = "confirmation"
              /\ MailReject(m))
             => (/\ last' = Event("confirmation", "error", <<>>, m.token)
                 /\ store' = store)
       /\ \A b \in Bodies :
             (/\ last'.op = "submit"
              /\ ConfirmationFailed
              /\ store[last.token].email = b.email
              /\ SubmitBegin(b.email, b.reason, b.feedback))
             => (last'.result = "duplicate" /\ SubmitNoEffect)]_vars

\* C27 as amended: when the confirmation email fails, the submission ends
\* with an error and the store is left as it is, so the record stays stored
\* and unconfirmed; while it is active, a further submission for its email
\* is rejected as a duplicate when it names a reason and by validation when
\* it names none, and persists nothing.
C27_NoRollback ==
    [][/\ \A m \in pending :
             (/\ last'.op = "confirmation"
              /\ m.kind = "confirmation"
              /\ MailReject(m))
             => (/\ last' = Event("confirmation", "error", <<>>, m.token)
                 /\ store' = store)
       /\ \A b \in Bodies :
             (/\ last'.op = "submit"
              /\ ConfirmationFailed
              /\ store[last.token].email = b.email
              /\ SubmitBegin(b.email, b.reason, b.feedback))
             => (/\ last'.result = IF b.reason = "" THEN "validation"
                                   ELSE "duplicate"
                 /\ SubmitNoEffect)]_vars

\* the confirmation email failed a window after the record was created, and
\* the record is still stored, unconfirmed and active
C27_Witness ==
    /\ ConfirmationFailed
    /\ now - store[last.token].createdAt = WindowMs

\* C28: when the support notification fails, the confirm call ends with an
\* error and the store is left as it is, so the record stays confirmed; a
\* later confirm of a token whose notification was handed over takes no
\* pending branch and hands over no notification, so that each token gets
\* at most one attempt.
C28_NoRenotify ==
    /\ [](\A t \in Tokens : supportMails[t] <= 1)
    /\ [][/\ \A m \in pending :
                (/\ last'.op = "support"
                 /\ m.kind = "support"
                 /\ MailReject(m))
                => (/\ last' = Event("support", "error", <<>>, m.token)
                    /\ store' = store
                    /\ supportMails' = supportMails)
          /\ \A t \in Tokens :
                (/\ last'.op = "confirm"
                 /\ supportMails[t] > 0
                 /\ ConfirmBegin(t))
                => (/\ last'.result # "pendingValid"
                    /\ running' = running
                    /\ pending' = pending
                    /\ supportMails' = supportMails)]_vars

\* the support notification of a token has just failed, and the record of
\* the token is stored and confirmed
C28_Witness ==
    /\ last.op = "support"
    /\ last.result = "error"
    /\ supportMails[last.token] = 1
    /\ StoredConfirmed(last.token)

\* C29: in every reachable state each stored record has confirmedAt set if
\* and only if its confirmed flag is true.
C29_ConfirmedAtIffConfirmed ==
    \A t \in DOMAIN store :
        ("confirmedAt" \in DOMAIN store[t]) <=> store[t].confirmed

\* a confirmed record carrying confirmedAt is stored next to an unconfirmed
\* record carrying none
C29_Witness ==
    \E t1 \in DOMAIN store : \E t2 \in DOMAIN store :
        /\ store[t1].confirmed
        /\ "confirmedAt" \in DOMAIN store[t1]
        /\ ~store[t2].confirmed
        /\ "confirmedAt" \notin DOMAIN store[t2]

\* a token that was issued, and so stored, and whose record is gone
Removed(t) == t <= issued /\ t \notin DOMAIN store

\* C30: deletion is final for a token: once its record has been removed, no
\* step writes a record under that token again, and a confirm of it ends
\* notFound.
C30_DeletionFinal ==
    [][/\ \A t \in Tokens : Removed(t) => t \notin DOMAIN store'
       /\ \A t \in Tokens :
             (last'.op = "confirm" /\ Removed(t) /\ ConfirmBegin(t))
             => (last'.result = "notFound" /\ getRequest(store', t) = <<>>)]_vars

\* a record was written for a new token while the record of an earlier
\* token stayed removed
C30_Witness ==
    /\ last.op = "submit"
    /\ last.result = "created"
    /\ last.token \in DOMAIN store
    /\ \E t \in Tokens : t < last.token /\ Removed(t)

\* C31: every request gets exactly one response.  A request that ends in
\* the opening step of its handler is answered there; any other handler
\* runs on until it awaits its one transport call, and when every transport
\* call settles the handler answers then: whenever a handler is inside its
\* synchronous code or a promise is unsettled, a state follows in which no
\* handler is and none is; and no token has two emails of one kind.  The
\* scan lists each stored file exactly once.
C31_EveryRequestAnswered ==
    /\ [](\A t \in Tokens :
            confirmationMails[t] <= 1 /\ supportMails[t] <= 1)
    /\ [](\A order \in {"up", "down"} :
            LET files == Readdir(store, order) IN
            /\ Len(files) = Cardinality(DOMAIN store)
            /\ {files[i] : i \in 1..Len(files)} = DOMAIN store)
    /\ (running # <<>> \/ pending # {}) ~> (running = <<>> /\ pending = {})

\* both emails of a token were handed to the transport and have settled,
\* the support notification last
C31_Witness ==
    /\ last.op = "support"
    /\ last.result \in {"sent", "error"}
    /\ confirmationMails[last.token] = 1
    /\ supportMails[last.token] = 1
    /\ pending = {}
    /\ running = <<>>

(***************************************************************************)
(* The configured expiry window                                            *)
(***************************************************************************)
AllDigits(s) == s # <<>> /\ \A i \in 1..Len(s) : s[i] \in DOMAIN Digits

Unsigned(s) == IF s # <<>> /\ Head(s) \in {"-", "+"} THEN Tail(s) ELSE s

\* the number a digit string denotes, read from its last digit
RECURSIVE DecimalValue(_)
DecimalValue(d) ==
    IF d = <<>> THEN 0
    ELSE 10 * DecimalValue(SubSeq(d, 1, Len(d) - 1)) + Digits[d[Len(d)]]

Signed(s, n) == IF s # <<>> /\ Head(s) = "-" THEN 0 - n ELSE n

\* the setting is an integer: a sign at most, then digits, and nothing else
IsInteger(e) == e # Undefined /\ AllDigits(Unsigned(e))
IntegerOf(e) == Signed(e, DecimalValue(Unsigned(e)))

IsHex(u) == Len(u) >= 2 /\ u[1] = "0" /\ u[2] \in {"x", "X"}

\* the setting is a number: an integer, one in hexadecimal notation, or
\* one with a decimal fraction
IsNumber(e) ==
    /\ e # Undefined
    /\ \/ IsInteger(e)
       \/ /\ IsHex(Unsigned(e))
          /\ Len(Unsigned(e)) >= 3
          /\ \A i \in 3..Len(Unsigned(e)) :
                Unsigned(e)[i] \in DOMAIN HexDigits
       \/ \E k \in 1..Len(Unsigned(e)) :
             /\ Unsigned(e)[k] = "."
             /\ AllDigits(SubSeq(Unsigned(e), 1, k - 1))
             /\ AllDigits(SubSeq(Unsigned(e), k + 1, Len(Unsigned(e))))

\* the window in hours as the statement gives it: the configured integer
\* when it is not zero, and the default when the setting is absent, not a
\* number, or zero (it says nothing of a number that is no integer)
Covered(e) == e = Undefined \/ ~IsNumber(e) \/ IsInteger(e)
ClaimedHours(e) ==
    IF IsInteger(e) /\ IntegerOf(e) # 0 THEN IntegerOf(e)
    ELSE DefaultExpiryHours

\* the number a digit string denotes in the base, read from its last digit
RECURSIVE ValueIn(_, _)
ValueIn(base, d) ==
    IF d = <<>> THEN 0
    ELSE base * ValueIn(base, SubSeq(d, 1, Len(d) - 1)) + HexDigits[d[Len(d)]]

\* the digits of the set that u begins with
Leading(u, digits) ==
    SubSeq(u, 1, Cardinality({k \in 1..Len(u) :
                                \A j \in 1..k : u[j] \in digits}))

\* the digits a setting begins with, after blanks, a sign and a 0x prefix,
\* and their base
LeadingDigits(e) ==
    LET u == Unsigned(SkipSpace(e))
    IN  IF IsHex(u) THEN Leading(SubSeq(u, 3, Len(u)), DOMAIN HexDigits)
        ELSE Leading(u, DOMAIN Digits)
LeadingBase(e) == IF IsHex(Unsigned(SkipSpace(e))) THEN 16 ELSE 10

\* the window in hours as amended: the integer the setting begins with when
\* there is one and it is not zero, the default otherwise
LeadingHours(e) ==
    IF e = Undefined \/ LeadingDigits(e) = <<>> THEN DefaultExpiryHours
    ELSE IF ValueIn(LeadingBase(e), LeadingDigits(e)) = 0
         THEN DefaultExpiryHours
    ELSE Signed(SkipSpace(e), ValueIn(LeadingBase(e), LeadingDigits(e)))

\* C32 as stated: the expiry window is the configured number of hours when
\* that is a non-zero integer, and 24 hours when the setting is absent, not
\* a number, or zero; a configured zero never makes records expire
\* immediately. Observed through the decisions of GET /confirm: a found
\* record is reported expired exactly when its age exceeds that window.
C32_ConfiguredWindow ==
    /\ []((IsInteger(env) /\ IntegerOf(env) = 0)
            => WindowMs = DefaultExpiryHours * HourMs)
    /\ [][\A token \in DOMAIN store :
             (/\ last'.op = "confirm"
              /\ Covered(env)
              /\ ConfirmBegin(token))
             => (last'.result = "expired"
                   <=> now - store[token].createdAt
                         > ClaimedHours(env) * HourMs)]_vars

\* C32 (amended): the expiry window is the integer the setting begins with
\* (after blanks and a sign, in decimal or 0x notation, whatever follows
\* the digits) when there is one and it is not zero, and 24 hours when the
\* setting is absent, begins with no integer, or begins with zero; a configured zero never makes records expire
\* immediately. A found record is reported expired by GET /confirm exactly
\* when its age exceeds that window.
C32_LeadingIntegerWindow ==
    /\ [](ExpiryHours(env) = LeadingHours(env))
    /\ []((IsInteger(env) /\ IntegerOf(env) = 0)
            => WindowMs = DefaultExpiryHours * HourMs)
    /\ [][\A token \in DOMAIN store :
             (/\ last'.op = "confirm"
              /\ ConfirmBegin(token))
             => (last'.result = "expired"
                   <=> now - store[token].createdAt
                         > LeadingHours(env) * HourMs)]_vars

\* under a setting of zero a record that is a whole default window old is
\* still accepted by GET /confirm
C32_Witness ==
    /\ env = <<"0">>
    /\ last.op = "confirm"
    /\ last.result = "pendingValid"
    /\ last.token \in DOMAIN store
    /\ store[last.token].createdAt = 0
    /\ now = DefaultExpiryHours * HourMs
====
